---- MODULE Spec2Model ----
(***************************************************************************)
(* A model of the ledger / broker-sync / order-execution core of            *)
(* kim2choi/ai-chat-app:                                                    *)
(*   portfolio_manager.py  PortfolioManager (the ledger and its JSON store) *)
(*   kis_connector.py      KISConnector (broker gateway, sync)              *)
(*   order_executor.py     OrderExecutor (validation, execute_buy/sell)     *)
(*   decision_parser.py    DecisionParser.calculate_buy_quantities          *)
(*   telegram_trading_bot.py  sync / approve / confirm_all handlers         *)
(*                                                                         *)
(* Python floats are modelled as IEEE 754 binary64 numbers: every sum,      *)
(* product and quotient is the exact result rounded to 53 bits.             *)
(***************************************************************************)
EXTENDS Integers, Sequences, FiniteSets, TLC

(***************************************************************************)
(* Bounds of the model.                                                    *)
(***************************************************************************)
\* number of ledger calls (add_position / remove_position / reload) in a run
MaxOps == 3

(***************************************************************************)
(* Natural numbers of any size: limbs of LimbBits bits, lowest first, with *)
(* no zero limb at the top; <<>> is 0.                                      *)
(***************************************************************************)
LimbBits == 15
Base == 32768

Abs(n) == IF n < 0 THEN -n ELSE n
Min(a, b) == IF a < b THEN a ELSE b
Max(a, b) == IF a < b THEN b ELSE a

Limb(a, i) == IF i <= Len(a) THEN a[i] ELSE 0

\* the sequence of the limbs f[1], ..., f[n] of a function f on 1..n
Limbs(f) == f \o <<>>

\* a without the zero limbs at its top
NStrip(a) ==
    SubSeq(a, 1, CHOOSE n \in 0..Len(a) :
                     /\ n = 0 \/ a[n] # 0
                     /\ \A j \in (n + 1)..Len(a) : a[j] = 0)

\* the limbs of an int n >= 0
NOfInt(n) == NStrip(Limbs([i \in 1..3 |-> (n \div Base^(i - 1)) % Base]))

\* the int of limbs a, for a < 2^31
NToInt(a) == Limb(a, 1) + Base * Limb(a, 2) + Base * Base * Limb(a, 3)

\* the carry into limb i of a + b: a limb below i overflows, and every limb
\* between the two is full
NCarry(a, b, i) ==
    \E j \in 1..(i - 1) :
        /\ Limb(a, j) + Limb(b, j) >= Base
        /\ \A l \in (j + 1)..(i - 1) : Limb(a, l) + Limb(b, l) = Base - 1

NAdd(a, b) ==
    IF a = <<>> THEN b
    ELSE IF b = <<>> THEN a
    ELSE NStrip(Limbs([i \in 1..(Max(Len(a), Len(b)) + 1) |->
               (Limb(a, i) + Limb(b, i) + (IF NCarry(a, b, i) THEN 1 ELSE 0))
                   % Base]))

\* the borrow from limb i of a - b: a limb below i is short, and every limb
\* between the two leaves nothing
NBorrow(a, b, i) ==
    \E j \in 1..(i - 1) :
        /\ a[j] < Limb(b, j)
        /\ \A l \in (j + 1)..(i - 1) : a[l] = Limb(b, l)

\* a - b, for a >= b
NSub(a, b) ==
    IF b = <<>> THEN a
    ELSE NStrip(Limbs([i \in 1..Len(a) |->
               (a[i] - Limb(b, i) - (IF NBorrow(a, b, i) THEN 1 ELSE 0)) % Base]))

\* -1, 0, 1 as a < b, a = b, a > b
NCmp(a, b) ==
    IF Len(a) < Len(b) THEN -1
    ELSE IF Len(a) > Len(b) THEN 1
    ELSE IF \A i \in 1..Len(a) : a[i] = b[i] THEN 0
    ELSE IF \E i \in 1..Len(a) :
                a[i] < b[i] /\ \A j \in (i + 1)..Len(a) : a[j] = b[j]
    THEN -1
    ELSE 1

\* a * k + c, for k <= Base and c < Base: the low halves of the products
\* a[i] * k, and their high halves one limb up, above c
NMulSmall(a, k, c) ==
    IF a = <<>> THEN NOfInt(c)
    ELSE NAdd(NStrip(Limbs([i \in 1..Len(a) |-> (a[i] * k) % Base])),
              NStrip(<<c>> \o [i \in 1..Len(a) |-> (a[i] * k) \div Base]))

\* a * Base^n
NShlLimbs(a, n) == IF a = <<>> THEN a ELSE [i \in 1..n |-> 0] \o a

RECURSIVE NMul(_, _)
\* a * b, by the halves of b
NMul(a, b) ==
    IF a = <<>> \/ b = <<>> THEN <<>>
    ELSE IF Len(b) = 1 THEN NMulSmall(a, b[1], 0)
    ELSE NAdd(NMul(a, NStrip(SubSeq(b, 1, Len(b) \div 2))),
              NShlLimbs(NMul(a, SubSeq(b, Len(b) \div 2 + 1, Len(b))),
                        Len(b) \div 2))

\* a * 2^n
NShl(a, n) == NShlLimbs(NMulSmall(a, 2^(n % LimbBits), 0), n \div LimbBits)

NShrBits(b, k) ==
    IF k = 0 THEN b
    ELSE NStrip(Limbs([i \in 1..Len(b) |->
                    (b[i] \div 2^k) + (Limb(b, i + 1) % 2^k) * 2^(LimbBits - k)]))

\* a \div 2^n
NShr(a, n) ==
    IF n \div LimbBits >= Len(a) THEN <<>>
    ELSE NShrBits(SubSeq(a, n \div LimbBits + 1, Len(a)), n % LimbBits)

\* the number of bits of a
NBitLen(a) ==
    IF a = <<>> THEN 0
    ELSE LimbBits * (Len(a) - 1)
            + (CHOOSE k \in 1..LimbBits : 2^(k-1) <= a[Len(a)] /\ a[Len(a)] < 2^k)

\* the number of zero bits at the low end of the limb x # 0
LimbTz(x) == CHOOSE k \in 0..(LimbBits - 1) : x % 2^(k+1) = 2^k

\* the lowest limb of a # 0 that is not 0
NLowest(a) == CHOOSE i \in 1..Len(a) : a[i] # 0 /\ \A j \in 1..(i - 1) : a[j] = 0

\* the number of zero bits at the low end of a # 0
NTz(a) == LimbBits * (NLowest(a) - 1) + LimbTz(a[NLowest(a)])

\* r * Base + x, for a limb x
NPush(r, x) == IF r = <<>> /\ x = 0 THEN <<>> ELSE <<x>> \o r

\* the estimate of the quotient limb of r by d, from the two top limbs of r:
\* it is the limb or up to 2 more (the top limb of d is at least Base / 2)
NDivEstimate(d, r) ==
    Min(Base - 1, (Limb(r, Len(d) + 1) * Base + Limb(r, Len(d))) \div d[Len(d)])

RECURSIVE NDivFrom(_, _, _, _, _)
RECURSIVE NDivFix(_, _, _, _, _, _)
\* the quotient limb q of r by d: the estimate is lowered until d * q <= r
NDivFix(a, d, i, r, q, qs) ==
    IF NCmp(NMulSmall(d, q, 0), r) > 0 THEN NDivFix(a, d, i, r, q - 1, qs)
    ELSE NDivFrom(a, d, i - 1, NSub(r, NMulSmall(d, q, 0)), <<q>> \o qs)

\* long division: <<quotient, remainder>>; qs are the limbs of the quotient
\* above limb i and r is the remainder they leave
NDivFrom(a, d, i, r, qs) ==
    IF i = 0 THEN <<NStrip(qs), r>>
    ELSE NDivFix(a, d, i, NPush(r, a[i]), NDivEstimate(d, NPush(r, a[i])), qs)

NDivUnscale(qr, t) == <<qr[1], NShr(qr[2], t)>>

\* the limbs of a above limb n are less than d and give no quotient limb
NDivStart(a, d, n, t) ==
    NDivUnscale(NDivFrom(a, d, n, SubSeq(a, n + 1, Len(a)), <<>>), t)

\* the division of a * 2^t by d * 2^t, whose top limb is at least Base / 2
NDivScaled(a, d, t) ==
    NDivStart(NShl(a, t), NShl(d, t), Max(Len(NShl(a, t)) - Len(d) + 1, 0), t)

\* <<a \div d, a % d>>, for d # 0
NDivMod(a, d) == NDivScaled(a, d, LimbBits * Len(d) - NBitLen(d))

(***************************************************************************)
(* Python float: IEEE 754 binary64.  A float is <<s, m, e>>, the number     *)
(* s * m * 2^e with s in {-1, 0, 1} and m odd (of at most 53 bits); each    *)
(* operation gives the exact result rounded to 53 bits, ties to even.  The  *)
(* limits of the exponent (overflow, subnormal numbers) and the sign of     *)
(* zero are left out: no value of the model comes near them.                *)
(***************************************************************************)
MantissaBits == 53

\* the float s * m * 2^e, for m of at most 53 bits
Canon(s, m, e) ==
    IF m = <<>> \/ s = 0 THEN <<0, <<>>, 0>>
    ELSE <<s, NShr(m, NTz(m)), e + NTz(m)>>

RoundUp(q, rem, half) ==
    NCmp(rem, half) > 0 \/ (NCmp(rem, half) = 0 /\ q[1] % 2 = 1)

RoundAt(s, m, e, sh, q) ==
    Canon(s,
          IF RoundUp(q, NSub(m, NShl(q, sh)), NShl(<<1>>, sh - 1))
          THEN NAdd(q, <<1>>) ELSE q,
          e + sh)

RoundBits(s, m, e, len) ==
    IF len <= MantissaBits THEN Canon(s, m, e)
    ELSE RoundAt(s, m, e, len - MantissaBits, NShr(m, len - MantissaBits))

\* s * m * 2^e rounded to the nearest float, ties to even
Round(s, m, e) == RoundBits(s, m, e, NBitLen(m))

\* float(n) of an int
R(n) == Canon(IF n < 0 THEN -1 ELSE 1, NOfInt(Abs(n)), 0)

RNeg(x) == <<-x[1], x[2], x[3]>>

AddAligned(s1, a, s2, b, e) ==
    IF s1 = s2 THEN Round(s1, NAdd(a, b), e)
    ELSE IF NCmp(a, b) = 0 THEN <<0, <<>>, 0>>
    ELSE IF NCmp(a, b) > 0 THEN Round(s1, NSub(a, b), e)
    ELSE Round(s2, NSub(b, a), e)

RAdd(x, y) ==
    IF x[1] = 0 THEN y
    ELSE IF y[1] = 0 THEN x
    ELSE IF x[3] <= y[3]
    THEN AddAligned(x[1], x[2], y[1], NShl(y[2], y[3] - x[3]), x[3])
    ELSE AddAligned(x[1], NShl(x[2], x[3] - y[3]), y[1], y[2], y[3])

RSub(x, y) == RAdd(x, RNeg(y))

RMul(x, y) ==
    IF x[1] = 0 \/ y[1] = 0 THEN <<0, <<>>, 0>>
    ELSE Round(x[1] * y[1], NMul(x[2], y[2]), x[3] + y[3])

\* the quotient bits with the sticky bit (a remainder is left) below them
Sticky(qr) == NMulSmall(qr[1], 2, IF qr[2] = <<>> THEN 0 ELSE 1)

DivScaled(s, a, b, e, k) ==
    Round(s, Sticky(NDivMod(NShl(a, k), b)), e - k - 1)

\* x / y, for y # 0
RDiv(x, y) ==
    IF x[1] = 0 THEN x
    ELSE DivScaled(x[1] * y[1], x[2], y[2], x[3] - y[3],
                   NBitLen(y[2]) + MantissaBits + 2 - NBitLen(x[2]))

\* the float nearest to n/d (a decimal literal such as 333.34 = Rat(33334, 100))
Rat(n, d) == RDiv(R(n), R(d))

RSign(x) == x[1]
RLt(x, y) == RSign(RSub(x, y)) < 0
RLe(x, y) == RSign(RSub(x, y)) <= 0
RIsZero(x) == x[1] = 0

\* the integer part of the float x (x cut off toward zero)
TruncToInt(x) ==
    IF x[3] >= 0 THEN x[1] * NToInt(NShl(x[2], x[3]))
    ELSE x[1] * NToInt(NShr(x[2], -x[3]))

(***************************************************************************)
(* Decimal text of numbers: repr(float), float(text), str(int), int(text), *)
(* as json.dump writes numbers and json.load reads them.  The text of a    *)
(* float is kept as its sign, its digits (a natural) and the power of ten  *)
(* the digits are scaled by: "100.5" is 1005 * 10^-1.                      *)
(***************************************************************************)
RECURSIVE Ten(_)
\* 10^n
Ten(n) == IF n < 5 THEN <<10^n>> ELSE NMulSmall(Ten(n - 4), 10000, 0)

RECURSIVE Five(_)
\* 5^n
Five(n) == IF n < 7 THEN <<5^n>> ELSE NMulSmall(Five(n - 6), 15625, 0)

Decimal(s, D, k) == [sign |-> s, digits |-> D, exp |-> k]

\* float(text): the float nearest to D * 10^k, ties to even
DecimalToFloat(s, D, k) ==
    IF D = <<>> THEN <<0, <<>>, 0>>
    ELSE IF k >= 0 THEN Round(s, NMul(D, Ten(k)), 0)
    ELSE DivScaled(s, D, Ten(-k), 0,
                   Max(NBitLen(Ten(-k)) + MantissaBits + 2 - NBitLen(D), 0))

\* <<n \div 2^t, n % 2^t>>
NShrMod(n, t) == <<NShr(n, t), NSub(n, NShl(NShr(n, t), t))>>

\* m * 2^e / 10^k as <<quotient, remainder>> of two naturals, and the divisor
DecDen(e, k) == NShl(Ten(Max(k, 0)), Max(-e, 0))
DecQR(m, e, k) ==
    IF k <= 0 THEN NShrMod(NMul(NShl(m, Max(e, 0)), Ten(-k)), Max(-e, 0))
    ELSE NDivMod(NShl(m, Max(e, 0)), DecDen(e, k))

\* the text D * 10^k reads back as the float m * 2^e
RoundTrips(D, k, m, e) == D # <<>> /\ DecimalToFloat(1, D, k) = <<1, m, e>>

NoDigits == [ok |-> FALSE]
Digits(D) == [ok |-> TRUE, digits |-> D]

FirstRoundTrip(D1, D2, k, m, e) ==
    IF RoundTrips(D1, k, m, e) THEN Digits(D1)
    ELSE IF RoundTrips(D2, k, m, e) THEN Digits(D2)
    ELSE NoDigits

\* of the two multiples of 10^k next to m * 2^e, the one that reads back as
\* m * 2^e, the nearer one first
DecNearest(qr, den, k, m, e) ==
    IF qr[2] = <<>> \/ NCmp(NMulSmall(qr[2], 2, 0), den) < 0
       \/ (NCmp(NMulSmall(qr[2], 2, 0), den) = 0 /\ Limb(qr[1], 1) % 2 = 0)
    THEN FirstRoundTrip(qr[1], NAdd(qr[1], <<1>>), k, m, e)
    ELSE FirstRoundTrip(NAdd(qr[1], <<1>>), qr[1], k, m, e)

DecBest(m, e, k) == DecNearest(DecQR(m, e, k), DecDen(e, k), k, m, e)

\* the exponent k at which m * 2^e / 10^k has 17 digits: 17 digits tell any
\* two floats apart.  guess is that exponent or one less
DecStart(m, e, guess) ==
    CHOOSE k \in (guess - 1)..(guess + 2) :
        /\ NCmp(DecQR(m, e, k)[1], Ten(16)) >= 0
        /\ NCmp(DecQR(m, e, k)[1], Ten(17)) < 0

\* the largest exponent at which a multiple of 10^k reads back as m * 2^e
DecShortest(m, e, start) ==
    CHOOSE k \in start..(start + 17) :
        DecBest(m, e, k).ok /\ ~DecBest(m, e, k + 1).ok

DecAt(s, m, e, k) == Decimal(s, DecBest(m, e, k).digits, k)

DecSearch(s, m, e, start) == DecAt(s, m, e, DecShortest(m, e, start))

\* repr(x) of a float: the shortest digits that read back as x.  An integer
\* below 2^53 is written with all its digits, and a fraction of fewer than 16
\* digits digit for digit: m * 2^-n = m * 5^n * 10^-n.
FloatRepr(x) ==
    IF x[1] = 0 THEN Decimal(1, <<>>, 0)
    ELSE IF x[3] >= 0 /\ NBitLen(x[2]) + x[3] <= MantissaBits
    THEN Decimal(x[1], NShl(x[2], x[3]), 0)
    ELSE IF x[3] < 0 /\ x[3] >= -21
            /\ NCmp(NMul(x[2], Five(-x[3])), Ten(15)) < 0
    THEN Decimal(x[1], NMul(x[2], Five(-x[3])), x[3])
    ELSE DecSearch(x[1], x[2], x[3],
             DecStart(x[2], x[3],
                      ((NBitLen(x[2]) + x[3]) * 30103) \div 100000 - 17))

\* float(text) of the text of a float
FloatOfRepr(d) == DecimalToFloat(d.sign, d.digits, d.exp)

RECURSIVE DigitsOfNat(_)
\* str(n) of an int, digit by digit
DigitsOfNat(n) ==
    IF n < 10 THEN <<n>> ELSE Append(DigitsOfNat(n \div 10), n % 10)

IntRepr(n) == [sign |-> IF n < 0 THEN -1 ELSE 1, digits |-> DigitsOfNat(Abs(n))]

RECURSIVE NatOfDigits(_)
NatOfDigits(ds) ==
    IF ds = <<>> THEN 0
    ELSE 10 * NatOfDigits(SubSeq(ds, 1, Len(ds) - 1)) + ds[Len(ds)]

\* int(text) of the text of an int
IntOfRepr(d) == d.sign * NatOfDigits(d.digits)

(***************************************************************************)
(* Inputs of the ledger calls.                                             *)
(***************************************************************************)
Symbols == {"AAPL", "MSFT"}
\* add_position / remove_position take any int: nothing in the code restricts it
ShareArgs == {-1, 0, 1, 2}
PriceArgs == {R(100), R(101), R(60000)}

(***************************************************************************)
(* PortfolioManager: the ledger, portfolio_manager.py.                     *)
(***************************************************************************)
\* 'cash': 100000 of the initial portfolio
InitialCash == 100000

\* {} : a dict with no key
EmptyDict == [s \in {} |-> 0]

\* the dict _load_portfolio returns when the store does not exist.  A Python
\* dict keeps its keys in the order of their insertion: holdings is the
\* mapping of the dict self.portfolio['holdings'] and keys the order of its
\* keys.  ('cash': 100000 is an int, every later value of cash a float: the
\* model keeps the number.)
InitialPortfolio(now) ==
    [cash |-> R(InitialCash),
     holdings |-> EmptyDict,
     keys |-> <<>>,
     transactions |-> <<>>,
     created_at |-> now]

Held(pf) == DOMAIN pf.holdings

\* dict item assignment holdings[symbol] = h
SetItem(holdings, symbol, h) ==
    [s \in (DOMAIN holdings) \cup {symbol} |->
        IF s = symbol THEN h ELSE holdings[s]]

\* del holdings[symbol]
DelItem(holdings, symbol) ==
    [s \in (DOMAIN holdings) \ {symbol} |-> holdings[s]]

\* the order of the keys after holdings[symbol] = h: a new key comes last,
\* a key already there keeps its place
KeysWith(keys, symbol) ==
    IF \E i \in DOMAIN keys : keys[i] = symbol THEN keys
    ELSE Append(keys, symbol)

\* the order of the keys after del holdings[symbol]
KeysWithout(keys, symbol) == SelectSeq(keys, LAMBDA k : k # symbol)

\* a plausible slip in add_position: the average is taken over the share
\* count before the buy (the division done ahead of the update of 'shares')
UpdatedHolding_StaleShares(holding, shares, cost) ==
    [shares |-> holding.shares + shares,
     avg_price |-> RDiv(RAdd(holding.total_cost, cost), R(holding.shares)),
     total_cost |-> RAdd(holding.total_cost, cost),
     first_purchase |-> holding.first_purchase]

\* add_position, lines 60-65: the existing holding after a buy of shares
\* for cost (total_shares # 0)
UpdatedHolding(holding, shares, cost) ==
    [shares |-> holding.shares + shares,
     avg_price |-> RDiv(RAdd(holding.total_cost, cost), R(holding.shares + shares)),
     total_cost |-> RAdd(holding.total_cost, cost),
     first_purchase |-> holding.first_purchase]

\* add_position(symbol, shares, price, date): the portfolio after the call,
\* its outcome and whether _save_portfolio ran.
\*   "ok"                 returned success True
\*   "insufficient_cash"  returned success False (cost > cash)
\*   "ZeroDivisionError"  raised at total_cost / total_shares, after
\*                        holding['shares'] was already assigned
add_position(pf, symbol, shares, price, date) ==
    LET cost == RMul(R(shares), price) IN
    IF RLt(pf.cash, cost)
    THEN [pf |-> pf, res |-> "insufficient_cash", saved |-> FALSE]
    ELSE IF symbol \in Held(pf)
    THEN LET holding == pf.holdings[symbol]
             total_shares == holding.shares + shares
         IN  IF total_shares = 0
             THEN [pf |-> [pf EXCEPT !.holdings[symbol].shares = total_shares],
                   res |-> "ZeroDivisionError", saved |-> FALSE]
             ELSE [pf |-> [pf EXCEPT
                        !.holdings[symbol] = UpdatedHolding(holding, shares, cost),
                        !.cash = RSub(pf.cash, cost),
                        !.transactions = Append(pf.transactions,
                            [type |-> "BUY", symbol |-> symbol, shares |-> shares,
                             price |-> price, cost |-> cost, date |-> date])],
                   res |-> "ok", saved |-> TRUE]
    ELSE [pf |-> [pf EXCEPT
                !.holdings = SetItem(pf.holdings, symbol,
                    [shares |-> shares, avg_price |-> price,
                     total_cost |-> cost, first_purchase |-> date]),
                !.keys = KeysWith(pf.keys, symbol),
                !.cash = RSub(pf.cash, cost),
                !.transactions = Append(pf.transactions,
                    [type |-> "BUY", symbol |-> symbol, shares |-> shares,
                     price |-> price, cost |-> cost, date |-> date])],
          res |-> "ok", saved |-> TRUE]

\* the holdings check, were it never to refuse
InsufficientHoldings_Never(holding, shares) == FALSE

\* if shares > holding['shares'] (line 110)
InsufficientHoldings(holding, shares) == shares > holding.shares

\* a plausible slip in remove_position: the cost basis is taken off the
\* average price instead of the cost total
SoldHolding_WrongKey(holding, shares, cost_basis) ==
    [holding EXCEPT
        !.shares = holding.shares - shares,
        !.avg_price = RSub(holding.avg_price, cost_basis)]

\* remove_position, lines 121-122: the holding after a sell of shares
SoldHolding(holding, shares, cost_basis) ==
    [holding EXCEPT
        !.shares = holding.shares - shares,
        !.total_cost = RSub(holding.total_cost, cost_basis)]

\* remove_position(symbol, shares, price, date)
\*   "ok"          returned success True
\*   "not_held"    returned success False (symbol not in holdings)
\*   "insufficient_holdings"  returned success False (shares > held)
remove_position(pf, symbol, shares, price, date) ==
    IF symbol \notin Held(pf)
    THEN [pf |-> pf, res |-> "not_held", saved |-> FALSE]
    ELSE LET holding == pf.holdings[symbol] IN
         IF InsufficientHoldings(holding, shares)
         THEN [pf |-> pf, res |-> "insufficient_holdings", saved |-> FALSE]
         ELSE LET proceeds == RMul(R(shares), price)
                  cost_basis == RMul(holding.avg_price, R(shares))
                  profit == RSub(proceeds, cost_basis)
                  left == SoldHolding(holding, shares, cost_basis)
              IN  [pf |-> [pf EXCEPT
                        !.holdings = IF left.shares = 0
                                     THEN DelItem(pf.holdings, symbol)
                                     ELSE SetItem(pf.holdings, symbol, left),
                        !.keys = IF left.shares = 0
                                 THEN KeysWithout(pf.keys, symbol)
                                 ELSE pf.keys,
                        !.cash = RAdd(pf.cash, proceeds),
                        !.transactions = Append(pf.transactions,
                            [type |-> "SELL", symbol |-> symbol, shares |-> shares,
                             price |-> price, proceeds |-> proceeds,
                             profit |-> profit, date |-> date])],
                   res |-> "ok", saved |-> TRUE]

(***************************************************************************)
(* The persisted store: portfolio.json, written by json.dump and read by    *)
(* json.load.  A JSON document is a tree of tagged values.  json.dump       *)
(* writes an int as the digits of int.__repr__, a float as the digits of    *)
(* float.__repr__ (the shortest that read back as the float), a str as a    *)
(* string, a list as an array and a dict as an object whose members stand   *)
(* in the order of the dict's keys; json.load reads the digits with int()   *)
(* and float() and the members of an object in the order of the file.       *)
(***************************************************************************)
\* no file at portfolio_file
Missing == [json |-> "no file"]
\* a file json.load cannot read: truncated or malformed text, or unreadable
Corrupt == [json |-> "malformed"]

JInt(n) == [json |-> "integer", text |-> IntRepr(n)]
JReal(x) == [json |-> "real", text |-> FloatRepr(x)]
JString(v) == [json |-> "string", text |-> v]
JArray(items) == [json |-> "array", items |-> items]
JObject(keys, members) == [json |-> "object", keys |-> keys, members |-> members]

\* a plausible slip in the encoder: reals written without their fraction
JsonEncode_Truncating(key, v) ==
    IF key \in {"type", "symbol", "date", "first_purchase", "created_at"}
    THEN JString(v)
    ELSE IF key = "shares" THEN JInt(v)
    ELSE JReal(R(TruncToInt(v)))

\* json.dump of one value of the portfolio dict, by the type of the value
\* the key holds: a str, an int (shares) or a float
JsonEncode(key, v) ==
    IF key \in {"type", "symbol", "date", "first_purchase", "created_at"}
    THEN JString(v)
    ELSE IF key = "shares" THEN JInt(v)
    ELSE JReal(v)

\* json.load of one value: int(text), float(text) or the string
JsonDecode(j) ==
    IF j.json = "integer" THEN IntOfRepr(j.text)
    ELSE IF j.json = "real" THEN FloatOfRepr(j.text)
    ELSE j.text

\* the keys of a holding (lines 67-72) and of a transaction (78-85, 131-139)
\* in the order the dict literals give them
HoldingKeys == <<"shares", "avg_price", "total_cost", "first_purchase">>
TransactionKeys(t) ==
    IF t.type = "BUY"
    THEN <<"type", "symbol", "shares", "price", "cost", "date">>
    ELSE <<"type", "symbol", "shares", "price", "proceeds", "profit", "date">>
PortfolioKeys == <<"cash", "holdings", "transactions", "created_at">>

\* a dict of str keys: a key is written as it is
JsonEncodeDict(keys, d) == JObject(keys, [k \in DOMAIN d |-> JsonEncode(k, d[k])])
JsonDecodeDict(j) == [k \in DOMAIN j.members |-> JsonDecode(j.members[k])]

\* json.dump(self.portfolio, f)
JsonDump(pf) ==
    JObject(PortfolioKeys,
        [cash |-> JsonEncode("cash", pf.cash),
         holdings |-> JObject(pf.keys,
                          [s \in DOMAIN pf.holdings |->
                              JsonEncodeDict(HoldingKeys, pf.holdings[s])]),
         transactions |-> JArray([i \in DOMAIN pf.transactions |->
                              JsonEncodeDict(TransactionKeys(pf.transactions[i]),
                                             pf.transactions[i])]),
         created_at |-> JsonEncode("created_at", pf.created_at)])

\* json.load(f) of a well-formed document
JsonLoad(doc) ==
    [cash |-> JsonDecode(doc.members.cash),
     holdings |-> [s \in DOMAIN doc.members.holdings.members |->
                      JsonDecodeDict(doc.members.holdings.members[s])],
     keys |-> doc.members.holdings.keys,
     transactions |-> [i \in DOMAIN doc.members.transactions.items |->
                      JsonDecodeDict(doc.members.transactions.items[i])],
     created_at |-> JsonDecode(doc.members.created_at)]

\* _save_portfolio(): the file after the write
_save_portfolio(pf) == JsonDump(pf)

\* _load_portfolio(): only FileNotFoundError is caught; json.JSONDecodeError
\* and OSError leave the function as exceptions
_load_portfolio(file, now) ==
    IF file = Missing
    THEN [res |-> "ok", pf |-> InitialPortfolio(now)]
    ELSE IF file = Corrupt
    THEN [res |-> "raised", pf |-> InitialPortfolio(now)]
    ELSE [res |-> "ok", pf |-> JsonLoad(file)]

(***************************************************************************)
(* PortfolioManager.get_current_value, and the methods the class lacks.    *)
(***************************************************************************)
\* the methods of PortfolioManager, were get_holding one of them
PortfolioManagerMethods_WithGetHolding ==
    {"_load_portfolio", "_save_portfolio", "add_position", "remove_position",
     "get_current_value", "get_performance", "_get_best_performer",
     "_get_worst_performer", "_get_quote", "get_summary", "get_holding"}

\* the methods of PortfolioManager, were clear_holdings one of them
PortfolioManagerMethods_WithClearHoldings ==
    {"_load_portfolio", "_save_portfolio", "add_position", "remove_position",
     "get_current_value", "get_performance", "_get_best_performer",
     "_get_worst_performer", "_get_quote", "get_summary", "clear_holdings"}

\* the methods class PortfolioManager defines (portfolio_manager.py 12-271);
\* a call of any other name on an instance raises AttributeError
PortfolioManagerMethods ==
    {"_load_portfolio", "_save_portfolio", "add_position", "remove_position",
     "get_current_value", "get_performance", "_get_best_performer",
     "_get_worst_performer", "_get_quote", "get_summary"}

\* the keys of the holdings dict in the order .items() yields them, the order
\* of insertion: add_position puts a new key last and keeps the place of a
\* key it updates, del takes a key out, and json.load keeps the order of the
\* file
Keys(pf) == pf.keys

RECURSIVE RSum(_, _)
\* total = 0; for k in keys: total += f[k]
RSum(f, keys) ==
    IF keys = <<>> THEN R(0)
    ELSE RAdd(RSum(f, SubSeq(keys, 1, Len(keys) - 1)), f[keys[Len(keys)]])

\* get_current_value(): quote[s] is the price _get_quote found for s, 0 when
\* the lookup failed (quote.get('price', 0) if quote else 0)
get_current_value(pf, quote) ==
    LET value == [s \in Held(pf) |-> RMul(R(pf.holdings[s].shares), quote[s])]
        total_stock_value == RSum(value, Keys(pf))
    IN  [cash |-> pf.cash,
         stock_value |-> total_stock_value,
         total_value |-> RAdd(pf.cash, total_stock_value),
         holdings |-> [s \in Held(pf) |->
                          [symbol |-> s, shares |-> pf.holdings[s].shares,
                           current_price |-> quote[s],
                           current_value |-> value[s]]]]

(***************************************************************************)
(* DecisionParser.calculate_buy_quantities, decision_parser.py.            *)
(***************************************************************************)
\* int(x), were it to round up
PyInt_Ceil(x) ==
    IF x[1] > 0 /\ x[3] < 0 THEN TruncToInt(x) + 1 ELSE TruncToInt(x)

\* int(x) of a float: truncation toward zero
PyInt(x) == TruncToInt(x)

\* current_prices.get(symbol) when the lookup gave nothing
None == <<>>

RECURSIVE calculate_buy_quantities(_, _)
\* buys: the parsed buy intents; current_prices[symbol] is a price or None
calculate_buy_quantities(buys, current_prices) ==
    IF buys = <<>> THEN <<>>
    ELSE LET buy == Head(buys)
             price == current_prices[buy.symbol]
             rest == calculate_buy_quantities(Tail(buys), current_prices)
         IN  IF price = None \/ RIsZero(price)
             THEN rest
             ELSE LET quantity == PyInt(RDiv(buy.target_amount, price)) IN
                  IF quantity > 0
                  THEN <<[symbol |-> buy.symbol, quantity |-> quantity,
                          price |-> price,
                          total_cost |-> RMul(R(quantity), price)]>> \o rest
                  ELSE rest

(***************************************************************************)
(* OrderExecutor, order_executor.py.                                       *)
(***************************************************************************)
\* self.max_order_value = 10000
max_order_value == 10000
\* self.min_cash_reserve = 100
min_cash_reserve == 100
\* self.max_position_pct = 0.3
max_position_pct == Rat(3, 10)
\* price = 100.0 in execute_buy and execute_sell ("TODO: real price lookup")
ValidationPrice == 100

\* the returned dict, were warnings to count against validity
validation_result_WarningsBlock(issues, warnings, order_value) ==
    [res |-> "ok", valid |-> issues = {} /\ warnings = {}, issues |-> issues,
     warnings |-> warnings, order_value |-> order_value]

\* return {'valid': len(issues) == 0, 'issues': ..., 'warnings': ...,
\* 'order_value': ...} (lines 63-68)
validation_result(issues, warnings, order_value) ==
    [res |-> "ok", valid |-> issues = {}, issues |-> issues,
     warnings |-> warnings, order_value |-> order_value]

\* lines 31-68 of validate_order, given order_value (line 30) and
\* current = self.pm.get_current_value() (line 35)
validate_against(pf, current, symbol, quantity, order_value, order_type) ==
    LET ceiling == IF RLt(R(max_order_value), order_value)
                   THEN {"max_order_value"} ELSE {}
        failed(e) == [res |-> e, valid |-> FALSE, issues |-> {}, warnings |-> {},
                      order_value |-> order_value]
    IN  IF order_type = "BUY"
        THEN LET cash_issue == IF RLt(current.cash, order_value)
                               THEN {"insufficient_cash"} ELSE {}
                 reserve == IF RLt(RSub(current.cash, order_value),
                                   R(min_cash_reserve))
                            THEN {"min_cash_reserve"} ELSE {}
                 future_position_value ==
                     IF symbol \in Held(pf)
                     THEN RAdd(order_value, current.holdings[symbol].current_value)
                     ELSE order_value
                 denominator == RAdd(current.total_value, order_value)
             IN  IF RIsZero(denominator)
                 THEN failed("ZeroDivisionError")
                 ELSE validation_result(
                          ceiling \cup cash_issue,
                          reserve \cup
                              (IF RLt(max_position_pct,
                                      RDiv(future_position_value, denominator))
                               THEN {"max_position_pct"} ELSE {}),
                          order_value)
        ELSE IF order_type = "SELL"
        THEN IF "get_holding" \notin PortfolioManagerMethods
             THEN failed("AttributeError")
             ELSE LET holding_issue ==
                          IF symbol \notin Held(pf) THEN {"not_held"}
                          ELSE IF pf.holdings[symbol].shares < quantity
                          THEN {"insufficient_holdings"} ELSE {}
                  IN  validation_result(ceiling \cup holding_issue, {},
                                        order_value)
        ELSE validation_result(ceiling, {}, order_value)

\* validate_order(symbol, quantity, price, order_type) on the executor's own
\* ledger pf.  res is "ok" when the function returns, the exception otherwise:
\*   SELL  self.pm.get_holding does not exist: AttributeError
\*   BUY   future_position_value / (total_value + order_value): ZeroDivisionError
validate_order(pf, quote, symbol, quantity, price, order_type) ==
    validate_against(pf, get_current_value(pf, quote), symbol, quantity,
                     RMul(R(quantity), price), order_type)

(***************************************************************************)
(* KISConnector.place_order, kis_connector.py.                             *)
(***************************************************************************)
\* what the broker and the transport do with one order request:
\*   filled     rt_cd '0', with the executed price AVG_PRVS
\*   rejected   rt_cd # '0'
\*   auth       _get_access_token raises
\*   network    requests.post raises
\*   malformed  the reply is no JSON or lacks rt_cd, output or ODNO
\* the executed prices place_order reads from the replies of a fill:
\* float(result['output'].get('AVG_PRVS', 0)), 0.0 for a reply without
\* AVG_PRVS and the price the broker names otherwise
ExecPrices == {R(0), R(160)}
BrokerResponses ==
    {[kind |-> "filled", price |-> p] : p \in ExecPrices}
        \cup {[kind |-> "rejected"], [kind |-> "auth"], [kind |-> "network"],
              [kind |-> "malformed"]}

\* how a block of code ends: with an exception or with a value
Raised(e, sent) == [raised |-> TRUE, exception |-> e, sent |-> sent]
Returned(v) == [raised |-> FALSE, value |-> v]

\* the try block of place_order (203-256); sent tells whether the request
\* left for the broker
place_order_body(symbol, quantity, order_type, resp) ==
    IF resp.kind = "auth" THEN Raised("token", FALSE)
    ELSE IF order_type \notin {"BUY", "SELL"} THEN Raised("ValueError", FALSE)
    ELSE IF resp.kind = "network" THEN Raised("ConnectionError", TRUE)
    ELSE IF resp.kind = "malformed" THEN Raised("KeyError", TRUE)
    ELSE IF resp.kind = "filled"
    THEN Returned([success |-> TRUE, order_no |-> "ODNO",
                   executed_price |-> resp.price, message |-> "msg1",
                   sent |-> TRUE])
    ELSE Returned([success |-> FALSE, error |-> "msg1", code |-> "rt_cd",
                   sent |-> TRUE])

\* except Exception as e: return {'success': False, 'error': str(e)} (258-262)
Caught(outcome) ==
    IF outcome.raised
    THEN [success |-> FALSE, error |-> outcome.exception, sent |-> outcome.sent]
    ELSE outcome.value

\* place_order, were the exceptions of its body to leave it
place_order_Uncaught(symbol, quantity, order_type, resp) ==
    place_order_body(symbol, quantity, order_type, resp)

\* place_order(symbol, quantity, order_type): every exception is caught
\* and returned as a failure
place_order(symbol, quantity, order_type, resp) ==
    Caught(place_order_body(symbol, quantity, order_type, resp))

\* update_holding, were it a method that books the fill at the executed
\* price without a look at the cash
update_holding_Unchecked(pf, symbol, shares, price) ==
    [res |-> "ok",
     pf |-> [pf EXCEPT !.cash = RSub(pf.cash, RMul(R(shares), price))]]

\* self.pm.update_holding(symbol, shares, price) in execute_buy/execute_sell:
\* PortfolioManager has no such method, the call raises and the ledger stays
update_holding(pf, symbol, shares, price) ==
    IF "update_holding" \in PortfolioManagerMethods
    THEN [res |-> "ok", pf |-> pf]
    ELSE [res |-> "AttributeError", pf |-> pf]

\* lines 107-120 / 160-173: the ledger update after place_order returned;
\* placed tells that kis.place_order was called, submitted that the order
\* request left for the broker
after_place_order(pf, validation, result, upd) ==
    IF ~result.success
    THEN [success |-> FALSE, error |-> result.error, placed |-> TRUE,
          submitted |-> result.sent, filled |-> FALSE,
          validation |-> validation, pf |-> pf]
    ELSE IF upd.res = "ok"
    THEN [success |-> TRUE, error |-> "", placed |-> TRUE, submitted |-> TRUE,
          filled |-> TRUE, validation |-> validation, pf |-> upd.pf]
    ELSE [success |-> FALSE, error |-> upd.res, placed |-> TRUE,
          submitted |-> TRUE,
          filled |-> TRUE, validation |-> validation, pf |-> upd.pf]

\* lines 85-127 / 143-180: what follows validate_order
after_validation(pf, validation, symbol, quantity, order_type, resp) ==
    IF validation.res # "ok" \/ ~validation.valid
    THEN [success |-> FALSE,
          error |-> IF validation.res # "ok" THEN validation.res
                    ELSE "Validation failed",
          placed |-> FALSE, submitted |-> FALSE, filled |-> FALSE,
          validation |-> validation, pf |-> pf]
    ELSE after_place_order(pf, validation,
             place_order(symbol, quantity, order_type, resp),
             update_holding(pf, symbol,
                 IF order_type = "BUY" THEN quantity ELSE -quantity,
                 IF resp.kind = "filled" THEN resp.price ELSE R(0)))

\* execute_buy / execute_sell(symbol, quantity): the returned dict, whether
\* the order went to the broker, and the executor's ledger afterwards
execute_order(pf, quote, symbol, quantity, order_type, resp) ==
    after_validation(pf,
        validate_order(pf, quote, symbol, quantity, R(ValidationPrice), order_type),
        symbol, quantity, order_type, resp)

execute_buy(pf, quote, symbol, quantity, resp) ==
    execute_order(pf, quote, symbol, quantity, "BUY", resp)

execute_sell(pf, quote, symbol, quantity, resp) ==
    execute_order(pf, quote, symbol, quantity, "SELL", resp)

(***************************************************************************)
(* KISConnector.parse_portfolio and sync_to_portfolio_manager.             *)
(***************************************************************************)
\* exchanges = ["NASD", "NYSE", "AMEX"]
exchanges == <<"NASD", "NYSE", "AMEX">>
Exchanges == {"NASD", "NYSE", "AMEX"}

\* the price the market quotes for every instrument (the broker's valuation)
MarketPrice == R(150)

RECURSIVE RowsOf(_, _, _)
\* one row of output1 per instrument of the set S
RowsOf(account, exchange, S) ==
    IF S = {} THEN <<>>
    ELSE LET s == CHOOSE x \in S : TRUE IN
         <<[ovrs_pdno |-> s,
            ovrs_cblc_qty |-> account.pos[exchange][s].shares,
            pchs_avg_pric |-> account.pos[exchange][s].avg_price,
            ovrs_stck_evlu_amt |->
                RMul(R(account.pos[exchange][s].shares), MarketPrice)]>>
         \o RowsOf(account, exchange, S \ {s})

\* the rows of output1 the broker returns for one exchange: one row per
\* instrument it lists there, rows of quantity 0 included
Rows(account, exchange) ==
    RowsOf(account, exchange, {s \in Symbols : account.pos[exchange][s].listed})

\* get_overseas_balance(exchange): raised when the token request or the
\* query raises, else the reply and the cash read from output2
get_overseas_balance(account, failing, exchange) ==
    IF exchange \in failing
    THEN [raised |-> TRUE]
    ELSE [raised |-> FALSE,
          result |-> [rt_cd |-> "0", output1 |-> Rows(account, exchange)],
          cash |-> account.cash]

\* the merged entry, were the value of the last row kept
MergedHolding_LastValue(old, item) ==
    [symbol |-> old.symbol,
     shares |-> old.shares + item.ovrs_cblc_qty,
     avg_price |-> item.pchs_avg_pric,
     current_value |-> item.ovrs_stck_evlu_amt]

\* lines 144-146: shares += ..., avg_price = ..., current_value += ...
MergedHolding(old, item) ==
    [symbol |-> old.symbol,
     shares |-> old.shares + item.ovrs_cblc_qty,
     avg_price |-> item.pchs_avg_pric,
     current_value |-> RAdd(old.current_value, item.ovrs_stck_evlu_amt)]

RECURSIVE MergeRows(_, _)
\* the loop over output1, lines 127-146
MergeRows(all_holdings, rows) ==
    IF rows = <<>> THEN all_holdings
    ELSE LET item == Head(rows)
             symbol == item.ovrs_pdno
             shares == item.ovrs_cblc_qty
             old == IF symbol \in DOMAIN all_holdings
                    THEN all_holdings[symbol]
                    ELSE [symbol |-> symbol, shares |-> 0, avg_price |-> R(0),
                          current_value |-> R(0)]
         IN  IF shares > 0
             THEN MergeRows(
                      SetItem(all_holdings, symbol, MergedHolding(old, item)),
                      Tail(rows))
             ELSE MergeRows(all_holdings, Tail(rows))

RECURSIVE FirstSeen(_, _)
\* the keys of all_holdings in the order of insertion: a symbol is inserted
\* by its first row with shares > 0 (lines 134-141)
FirstSeen(keys, rows) ==
    IF rows = <<>> THEN keys
    ELSE LET symbol == Head(rows).ovrs_pdno IN
         IF Head(rows).ovrs_cblc_qty > 0
            /\ \A i \in DOMAIN keys : keys[i] # symbol
         THEN FirstSeen(Append(keys, symbol), Tail(rows))
         ELSE FirstSeen(keys, Tail(rows))

RECURSIVE ParseExchanges(_, _, _, _)
\* the loop over exchanges, lines 110-153: a failed query is printed and skipped
ParseExchanges(account, failing, todo, acc) ==
    IF todo = <<>> THEN acc
    ELSE LET exchange == Head(todo)
             balance_data == get_overseas_balance(account, failing, exchange)
         IN  IF balance_data.raised
             THEN ParseExchanges(account, failing, Tail(todo), acc)
             ELSE ParseExchanges(account, failing, Tail(todo),
                      [holdings |-> MergeRows(acc.holdings,
                                              balance_data.result.output1),
                       keys |-> FirstSeen(acc.keys,
                                          balance_data.result.output1),
                       cash |-> IF exchange = "NASD" /\ RLt(R(0), balance_data.cash)
                                THEN balance_data.cash ELSE acc.cash])

\* lines 158-165: the returned dict
Parsed(acc) ==
    [holdings |-> acc.holdings,
     keys |-> acc.keys,
     cash |-> acc.cash,
     total_value |-> RAdd(RSum([s \in DOMAIN acc.holdings |->
                                   acc.holdings[s].current_value],
                               acc.keys),
                          acc.cash)]

\* parse_portfolio(): account is the broker's state, failing the exchanges
\* whose query fails
parse_portfolio(account, failing) ==
    Parsed(ParseExchanges(account, failing, exchanges,
                          [holdings |-> EmptyDict, keys |-> <<>>,
                           cash |-> R(0)]))

\* the ledger after pm.clear_holdings(), pm.set_cash(cash) and
\* pm.set_holding(symbol, shares, avg_price, current_price), read by the
\* names of the calls: PortfolioManager defines none of them
clear_holdings(pf) == [pf EXCEPT !.holdings = EmptyDict, !.keys = <<>>]
set_cash(pf, cash) == [pf EXCEPT !.cash = cash]
set_holding(pf, symbol, shares, avg_price) ==
    [pf EXCEPT !.holdings = SetItem(pf.holdings, symbol,
                                [shares |-> shares, avg_price |-> avg_price]),
               !.keys = KeysWith(pf.keys, symbol)]

RECURSIVE SetHoldings(_, _, _)
\* the loop over portfolio['holdings'].items(), lines 179-185
SetHoldings(pf, portfolio, keys) ==
    IF keys = <<>> THEN pf
    ELSE SetHoldings(set_holding(pf, Head(keys),
                                 portfolio.holdings[Head(keys)].shares,
                                 portfolio.holdings[Head(keys)].avg_price),
                     portfolio, Tail(keys))

\* a call on pm raised AttributeError: the ledger as the calls before it left it
SyncRaised(pf, portfolio) ==
    [res |-> "AttributeError", pf |-> pf, saved |-> FALSE, portfolio |-> portfolio]

\* sync_to_portfolio_manager(pm), lines 173-190, after parse_portfolio: the
\* calls on pm one after the other, each a write of its own with nothing
\* to undo it; a call of a method pm does not have raises AttributeError and
\* leaves what the calls before it wrote.  The first call, pm.clear_holdings(),
\* is of a method PortfolioManager does not have.
sync_to_portfolio_manager(pf, portfolio) ==
    IF "clear_holdings" \notin PortfolioManagerMethods
    THEN SyncRaised(pf, portfolio)
    ELSE IF "set_cash" \notin PortfolioManagerMethods
    THEN SyncRaised(clear_holdings(pf), portfolio)
    ELSE IF portfolio.keys # <<>> /\ "set_holding" \notin PortfolioManagerMethods
    THEN SyncRaised(set_cash(clear_holdings(pf), portfolio.cash), portfolio)
    ELSE IF "save" \notin PortfolioManagerMethods
    THEN SyncRaised(SetHoldings(set_cash(clear_holdings(pf), portfolio.cash),
                                portfolio, portfolio.keys),
                    portfolio)
    ELSE [res |-> "ok",
          pf |-> SetHoldings(set_cash(clear_holdings(pf), portfolio.cash),
                             portfolio, portfolio.keys),
          saved |-> TRUE, portfolio |-> portfolio]

(***************************************************************************)
(* Inputs of the bot.                                                      *)
(***************************************************************************)
\* the ledgers portfolio.json holds when the bot starts: written by earlier
\* add_position calls on the initial portfolio
LedgerSamples ==
    {add_position(InitialPortfolio(0), "AAPL", 10, R(150), 0).pf,
     add_position(InitialPortfolio(0), "AAPL", 850, R(100), 0).pf}

Unlisted == [listed |-> FALSE, shares |-> 0, avg_price |-> R(0)]
Position(n, avg) == [listed |-> TRUE, shares |-> n, avg_price |-> R(avg)]

\* the broker's account when the bot starts
BrokerSamples ==
    {[cash |-> R(5000),
      pos |-> [e \in Exchanges |-> [s \in Symbols |->
                 IF e = "NASD" /\ s = "MSFT" THEN Position(5, 300)
                 ELSE IF e = "NYSE" /\ s = "AAPL" THEN Position(0, 0)
                 ELSE Unlisted]]],
     [cash |-> R(40000),
      pos |-> [e \in Exchanges |-> [s \in Symbols |->
                 IF e = "NASD" /\ s = "AAPL" THEN Position(1, 140)
                 ELSE IF e = "NYSE" /\ s = "AAPL" THEN Position(2, 160)
                 ELSE Unlisted]]]}

\* what _get_quote finds for a symbol: nothing (0) or a price
QuotePrices == {R(0), R(100)}
\* what kis.get_current_price finds for a symbol to buy
LookupPrices == {None, R(100)}
\* the exchanges whose balance query fails during one parse_portfolio
FailingSets == {{}, {"NASD"}, {"NYSE", "AMEX"}}

\* the intents parse_decision (the language model) returns; a sell quantity
\* may be missing (None) or a fraction of a share (0.5 in the parser's own
\* example, decision_parser.py:19)
SellIntents == {[symbol |-> "AAPL", quantity |-> R(20)],
                [symbol |-> "AAPL", quantity |-> Rat(1, 2)],
                [symbol |-> "MSFT", quantity |-> None]}
\* longest list of buys in one decision
MaxIntents == 2
\* the lists of buys of the decisions the bot runs to their end: no buy, one
\* buy, and two buys of which both or one pass the validation
BuyDecisions ==
    {<<>>,
     <<[symbol |-> "AAPL", target_amount |-> R(10000)]>>,
     <<[symbol |-> "MSFT", target_amount |-> R(10000)]>>,
     <<[symbol |-> "MSFT", target_amount |-> R(20000)]>>,
     <<[symbol |-> "AAPL", target_amount |-> R(10000)],
       [symbol |-> "MSFT", target_amount |-> R(10000)]>>,
     <<[symbol |-> "MSFT", target_amount |-> R(20000)],
       [symbol |-> "AAPL", target_amount |-> R(10000)]>>}
\* longest list of sells in one decision
MaxSells == 1

SeqsUpTo(S, n) == UNION {[1..k -> S] : k \in 0..n}

\* confirm_all invocations on one proposal
MaxConfirms == 2
\* approve invocations in a run
MaxApprovals == 1

(***************************************************************************)
(* State.                                                                  *)
(***************************************************************************)
VARIABLES
    pm,        \* pm.portfolio of the PortfolioManager in use (the bot's pm)
    store,     \* the content of portfolio.json
    clock,     \* datetime.now(): one tick per ledger call
    lastOp,    \* the last ledger call: its arguments, outcome and pre-state
    exPm,      \* executor.pm.portfolio: the OrderExecutor's own instance
    broker,    \* the account at the broker: cash and positions per exchange
    last_decision,   \* the bot's global: a committee decision is there
    pending_orders,  \* the bot's global: PendingNone or the orders to confirm
    pc,        \* where confirm_all_cmd stands: idle, sells, buys, sync
    idx,       \* the index of the next order of the running loop
    results,   \* confirm_all_cmd's results dict
    confirms,  \* confirm_all invocations on the pending proposal
    approvals, \* approve invocations that set pending_orders
    log,       \* the orders handed to execute_sell / execute_buy, in order
    lastSync,  \* the outcome of the sync the latest handler ran, if it ran one
    market     \* what _get_quote finds for each symbol during the run

ledgerVars == <<pm, store, clock, lastOp>>
botVars == <<exPm, broker, last_decision, pending_orders, pc, idx, results,
             confirms, approvals, log, lastSync, market>>
vars == <<pm, store, clock, lastOp, exPm, broker, last_decision,
          pending_orders, pc, idx, results, confirms, approvals, log, lastSync,
          market>>

NoOp == [op |-> "none"]
PendingNone == [is_none |-> TRUE]
NoResults == [sells |-> <<>>, buys |-> <<>>, errors |-> <<>>, ended |-> "none"]
NoSync == [res |-> "none"]

(***************************************************************************)
(* The ledger used directly: add_position, remove_position, reload.        *)
(***************************************************************************)
\* the holding of symbol before a call, for the record of the call
Before(pf, symbol) ==
    IF symbol \in Held(pf)
    THEN [held |-> TRUE, shares |-> pf.holdings[symbol].shares,
          avg_price |-> pf.holdings[symbol].avg_price,
          total_cost |-> pf.holdings[symbol].total_cost]
    ELSE [held |-> FALSE, shares |-> 0, avg_price |-> R(0),
          total_cost |-> R(0)]

BotIdle ==
    /\ exPm = InitialPortfolio(0)
    /\ broker = CHOOSE b \in BrokerSamples : TRUE
    /\ last_decision = FALSE
    /\ pending_orders = PendingNone
    /\ pc = "idle"
    /\ idx = 0
    /\ results = NoResults
    /\ confirms = 0
    /\ approvals = 0
    /\ log = <<>>
    /\ lastSync = NoSync
    /\ market = [s \in Symbols |-> R(0)]

\* PortfolioManager() on a store that does not exist yet
LedgerInit ==
    /\ clock = 1
    /\ store = Missing
    /\ pm = _load_portfolio(Missing, 0).pf
    /\ lastOp = NoOp
    /\ BotIdle

\* pm.add_position(symbol, shares, price), date = datetime.now()
AddPosition(shareArgs) ==
    \E symbol \in Symbols, shares \in shareArgs, price \in PriceArgs :
        LET r == add_position(pm, symbol, shares, price, clock) IN
        /\ clock <= MaxOps
        /\ pm' = r.pf
        /\ store' = IF r.saved THEN _save_portfolio(r.pf) ELSE store
        /\ lastOp' = [op |-> "add_position", symbol |-> symbol, shares |-> shares,
                      price |-> price, res |-> r.res,
                      before |-> Before(pm, symbol)]
        /\ clock' = clock + 1
        /\ UNCHANGED botVars

\* pm.remove_position(symbol, shares, price), date = datetime.now()
RemovePosition(shareArgs) ==
    \E symbol \in Symbols, shares \in shareArgs, price \in PriceArgs :
        LET r == remove_position(pm, symbol, shares, price, clock) IN
        /\ clock <= MaxOps
        /\ pm' = r.pf
        /\ store' = IF r.saved THEN _save_portfolio(r.pf) ELSE store
        /\ lastOp' = [op |-> "remove_position", symbol |-> symbol, shares |-> shares,
                      price |-> price, res |-> r.res,
                      before |-> Before(pm, symbol)]
        /\ clock' = clock + 1
        /\ UNCHANGED botVars

\* PortfolioManager(): a new instance loads the store (a restart of the
\* program); when the constructor raises there is no new instance
Reload ==
    LET r == _load_portfolio(store, clock) IN
    /\ clock <= MaxOps
    /\ pm' = IF r.res = "ok" THEN r.pf ELSE pm
    /\ lastOp' = [op |-> "load", res |-> r.res, file |-> store]
    /\ clock' = clock + 1
    /\ UNCHANGED <<store, botVars>>

\* the environment damages the file: a write cut short after open(..., 'w')
\* truncated it, a hand edit, a disk fault
CorruptStore ==
    /\ clock <= MaxOps
    /\ store \notin {Missing, Corrupt}
    /\ store' = Corrupt
    /\ lastOp' = [op |-> "corrupt"]
    /\ clock' = clock + 1
    /\ UNCHANGED <<pm, botVars>>

LedgerNext(shareArgs) ==
    \/ AddPosition(shareArgs)
    \/ RemovePosition(shareArgs)
    \/ Reload
    \/ CorruptStore

\* the ledger under calls with any int share count
Next == LedgerNext(ShareArgs)
Spec == LedgerInit /\ [][Next]_vars

\* the ledger under calls that respect the documented precondition shares > 0
ValidShareArgs == {1, 2}
NextValid == LedgerNext(ValidShareArgs)
SpecValid == LedgerInit /\ [][NextValid]_vars

(***************************************************************************)
(* The bot: telegram_trading_bot.py.  Updates are handled one at a time,   *)
(* so a handler runs to its end before the next one starts.                *)
(***************************************************************************)
\* pm = PortfolioManager(); kis = KISConnector(); executor = OrderExecutor():
\* two PortfolioManager instances load the same portfolio.json
BotInit ==
    /\ clock = 1
    /\ lastOp = NoOp
    /\ \E ledger \in LedgerSamples :
        /\ store = _save_portfolio(ledger)
        /\ pm = _load_portfolio(_save_portfolio(ledger), 0).pf
        /\ exPm = _load_portfolio(_save_portfolio(ledger), 0).pf
    /\ broker \in BrokerSamples
    /\ last_decision = FALSE
    /\ pending_orders = PendingNone
    /\ pc = "idle"
    /\ idx = 0
    /\ results = NoResults
    /\ confirms = 0
    /\ approvals = 0
    /\ log = <<>>
    /\ lastSync = NoSync
    /\ \E qp \in QuotePrices : market = [s \in Symbols |-> qp]

\* the ledger, the store and the record of a sync that returned or raised r
Synced(r, failing) ==
    /\ pm' = r.pf
    /\ store' = IF r.saved THEN _save_portfolio(r.pf) ELSE store
    /\ lastSync' = [res |-> r.res, portfolio |-> r.portfolio,
                    account |-> broker, failing |-> failing]

\* rebalance_cmd (102-138): committee.conduct_investment_meeting() begins
\* with kis.parse_portfolio(), whose result goes to the printout and the
\* market report only, and kis.sync_to_portfolio_manager(pm) on the bot's
\* pm, an exception of which the committee catches
\* (investment_committee.py 46-64); the decision the meeting returns is kept
\* in last_decision, whether there was one before or not
RebalanceCmd ==
    /\ pc = "idle"
    /\ \E failing \in FailingSets :
        Synced(sync_to_portfolio_manager(pm, parse_portfolio(broker, failing)),
               failing)
    /\ last_decision' = TRUE
    /\ UNCHANGED <<clock, lastOp, exPm, broker, pending_orders, pc, idx,
                   results, confirms, approvals, log, market>>

\* approve_cmd: parse the decision, look the prices up, resolve the buy
\* quantities, set pending_orders (lines 156-183)
ApproveCmd ==
    /\ pc = "idle"
    /\ last_decision
    /\ approvals < MaxApprovals
    /\ \E sells \in SeqsUpTo(SellIntents, MaxSells),
          buys \in BuyDecisions,
          current_prices \in [Symbols -> LookupPrices] :
            pending_orders' =
                [sells |-> sells,
                 buys |-> calculate_buy_quantities(buys, current_prices)]
    /\ approvals' = approvals + 1
    /\ confirms' = 0
    /\ log' = <<>>
    /\ results' = NoResults
    /\ lastSync' = NoSync
    /\ UNCHANGED <<ledgerVars, exPm, broker, last_decision, pc, idx, market>>

\* the order in which confirm_all_cmd hands the pending orders to the
\* executor, were buys taken first
Schedule_BuysFirst(pending) ==
    [i \in 1..Len(pending.buys) |-> [side |-> "BUY", item |-> i]]
        \o [i \in 1..Len(pending.sells) |-> [side |-> "SELL", item |-> i]]

\* the order in which confirm_all_cmd hands the pending orders to the
\* executor: the loop over the sells (246-263), then the loop over the buys
\* (266-283)
Schedule(pending) ==
    [i \in 1..Len(pending.sells) |-> [side |-> "SELL", item |-> i]]
        \o [i \in 1..Len(pending.buys) |-> [side |-> "BUY", item |-> i]]

\* confirm_all_cmd, to the first order: lines 227-242 (with no pending
\* orders the handler replies and returns, changing nothing, as it does when
\* the reply of line 236, outside the try, raises)
ConfirmAllCmd ==
    /\ pc = "idle"
    /\ pending_orders # PendingNone
    /\ confirms < MaxConfirms
    /\ confirms' = confirms + 1
    /\ results' = [NoResults EXCEPT !.ended = "running"]
    /\ pc' = IF Schedule(pending_orders) = <<>> THEN "sync" ELSE "orders"
    /\ idx' = 1
    /\ lastSync' = NoSync
    /\ UNCHANGED <<ledgerVars, exPm, broker, last_decision, pending_orders,
                   approvals, log, market>>

\* the broker's account after a fill (place_order sends every order to
\* NASD); nothing in place_order asks whether the account covers the order
Fill(account, side, symbol, quantity, price) ==
    LET old == account.pos["NASD"][symbol]
        n == IF side = "BUY" THEN old.shares + quantity ELSE old.shares - quantity
        amount == RMul(R(quantity), price)
    IN  [cash |-> IF side = "BUY" THEN RSub(account.cash, amount)
                  ELSE RAdd(account.cash, amount),
         pos |-> [account.pos EXCEPT !["NASD"][symbol] =
                    [listed |-> TRUE, shares |-> n,
                     avg_price |-> IF side = "BUY" THEN price ELSE old.avg_price]]]

\* lines 254-263 / 273-283: the result of one order filed in results; the
\* broker's account and the executor's ledger after the order.  replied
\* tells whether the reply_text that follows (260, 263, 280, 283) returned:
\* when it raised the handler is on its way to the except clause
FileResult(step, order, quantity, resp, r, replied) ==
    /\ exPm' = r.pf
    /\ broker' = IF r.filled
                 THEN Fill(broker, step.side, order.symbol, quantity, resp.price)
                 ELSE broker
    /\ log' = Append(log,
          [confirm |-> confirms, side |-> step.side,
           item |-> step.item, symbol |-> order.symbol,
           quantity |-> quantity,
           validated |-> r.validation.res,
           valid |-> r.validation.valid,
           issues |-> r.validation.issues,
           held_at_validation |-> IF order.symbol \in Held(exPm)
                                  THEN exPm.holdings[order.symbol].shares ELSE 0,
           warnings |-> r.validation.warnings,
           order_value |-> r.validation.order_value,
           cash_at_validation |-> exPm.cash,
           placed |-> r.placed,
           submitted |-> r.submitted, filled |-> r.filled,
           executed_price |-> IF r.filled THEN resp.price ELSE None,
           applied |-> r.pf # exPm,
           success |-> r.success])
    /\ results' =
          IF ~r.success
          THEN [results EXCEPT !.errors = Append(@,
                   [symbol |-> order.symbol, quantity |-> order.quantity]),
                               !.ended = IF replied THEN @ ELSE "exception"]
          ELSE IF step.side = "SELL"
          THEN [results EXCEPT !.sells = Append(@,
                   [symbol |-> order.symbol, quantity |-> order.quantity]),
                               !.ended = IF replied THEN @ ELSE "exception"]
          ELSE [results EXCEPT !.buys = Append(@,
                   [symbol |-> order.symbol, quantity |-> order.quantity]),
                               !.ended = IF replied THEN @ ELSE "exception"]

\* lines 246-252 / 267-271: one order handed to the executor; the broker
\* replies as it will, and place_order reads nothing but the reply
HandOver(step, order, quantity, resp, replied) ==
    /\ FileResult(step, order, quantity, resp,
          IF step.side = "SELL"
          THEN execute_sell(exPm, market, order.symbol, quantity, resp)
          ELSE execute_buy(exPm, market, order.symbol, quantity, resp),
          replied)

\* the order the schedule has at position i
OrderAt(pending, step) ==
    IF step.side = "SELL" THEN pending.sells[step.item]
    ELSE pending.buys[step.item]

\* whether an awaited update.message.reply_text returned or raised (the
\* connection to Telegram failed, the message was refused)
Replies == {TRUE, FALSE}

\* one pass of a loop of confirm_all_cmd (246-263 / 266-283): the reply that
\* announces the order, the order handed to execute_sell or execute_buy, its
\* result filed, and the reply that tells the result.  The handler ends in
\* its except clause (316-318), with the orders that remain not handed over,
\* no sync and pending_orders left as it is, when
\*   the announcing reply (247, 267) raises,
\*   int(sell['quantity']) of a missing quantity raises, or
\*   the reply after the order (260, 263, 280, 283) raises.
ExecuteOrder ==
    /\ pc = "orders"
    /\ \E step \in {Schedule(pending_orders)[idx]} :
       \E order \in {OrderAt(pending_orders, step)} :
       \E announced \in Replies :
           IF ~announced \/ (step.side = "SELL" /\ order.quantity = None)
           THEN /\ pc' = "idle"
                /\ results' = [results EXCEPT !.ended = "exception"]
                /\ UNCHANGED <<idx, exPm, broker, log>>
           ELSE /\ \E resp \in BrokerResponses, replied \in Replies :
                     /\ HandOver(step, order,
                            IF step.side = "SELL" THEN PyInt(order.quantity)
                            ELSE order.quantity,
                            resp, replied)
                     /\ pc' = IF ~replied THEN "idle"
                              ELSE IF idx = Len(Schedule(pending_orders))
                              THEN "sync" ELSE "orders"
                /\ idx' = idx + 1
    /\ UNCHANGED <<ledgerVars, last_decision, pending_orders, confirms,
                   approvals, lastSync, market>>

\* the end of confirm_all_cmd: the report (286-307), then
\* kis.sync_to_portfolio_manager(pm) and pending_orders = None (310-314);
\* a reply of the report that raises, or an exception of the sync, ends the
\* handler in its except clause with pending_orders left as it is
FinalSync ==
    /\ pc = "sync"
    /\ \E reported \in Replies :
        IF ~reported
        THEN /\ results' = [results EXCEPT !.ended = "exception"]
             /\ UNCHANGED <<pm, store, lastSync, pending_orders>>
        ELSE /\ \E failing \in FailingSets :
                  Synced(sync_to_portfolio_manager(pm,
                             parse_portfolio(broker, failing)),
                         failing)
             /\ pending_orders' = IF lastSync'.res = "ok" THEN PendingNone
                                  ELSE pending_orders
             /\ results' = [results EXCEPT
                               !.ended = IF lastSync'.res = "ok" THEN "completed"
                                         ELSE "sync raised"]
    /\ pc' = "idle"
    /\ UNCHANGED <<clock, lastOp, exPm, broker, last_decision, idx, confirms,
                   approvals, log, market>>

\* sync_cmd: kis.sync_to_portfolio_manager(pm), then pm.save() (81-83)
SyncCmd ==
    /\ pc = "idle"
    /\ \E failing \in FailingSets :
        Synced(sync_to_portfolio_manager(pm, parse_portfolio(broker, failing)),
               failing)
    /\ UNCHANGED <<clock, lastOp, exPm, broker, last_decision, pending_orders,
                   pc, idx, results, confirms, approvals, log, market>>

\* the buy intents and the prices of a decision whose resolution is recorded
ResolveIntents == {[symbol |-> "AAPL", target_amount |-> R(1000)],
                   [symbol |-> "AAPL", target_amount |-> Rat(25005, 10)],
                   [symbol |-> "MSFT", target_amount |-> R(1000)],
                   [symbol |-> "MSFT", target_amount |-> R(50)],
                   [symbol |-> "MSFT", target_amount |-> Rat(78, 10)]}
ResolvePrices == {None, R(0), R(3), R(100), Rat(33334, 100), Rat(1667, 100),
                  Rat(156, 100)}

\* lines 168-173: a price that is missing or 0 is left out of current_prices
current_prices_of(lookup) ==
    [s \in Symbols |-> IF lookup[s] = None THEN None
                       ELSE IF RIsZero(lookup[s]) THEN None ELSE lookup[s]]

\* the confirmation message of approve_cmd (186-217): the sells and the
\* resolved buys; it has no section for intents that were left out.
\* f"{sell['quantity']:.4f}" of a missing quantity raises, and the handler
\* ends in its except clause without the message
approve_message(pending) ==
    IF \E i \in DOMAIN pending.sells : pending.sells[i].quantity = None
    THEN [raised |-> TRUE]
    ELSE [raised |-> FALSE, sells |-> pending.sells, buys |-> pending.buys,
          skipped |-> <<>>]

\* what approve_cmd did with a parsed decision and the prices it looked up
ApproveRecord(sells, buys, lookup, pending) ==
    [op |-> "approve", sells |-> sells, buys |-> buys, lookup |-> lookup,
     result |-> pending.buys, message |-> approve_message(pending)]

\* approve_cmd as ApproveCmd, on a wider choice of intents and prices, with
\* the call recorded in lastOp
ApproveTraced ==
    /\ pc = "idle"
    /\ last_decision
    /\ approvals < MaxApprovals
    /\ \E sells \in SeqsUpTo(SellIntents, MaxSells),
          buys \in SeqsUpTo(ResolveIntents, MaxIntents),
          lookup \in [Symbols -> ResolvePrices] :
        /\ pending_orders' =
              [sells |-> sells,
               buys |-> calculate_buy_quantities(buys, current_prices_of(lookup))]
        /\ lastOp' = ApproveRecord(sells, buys, lookup, pending_orders')
    /\ approvals' = approvals + 1
    /\ confirms' = 0
    /\ log' = <<>>
    /\ results' = NoResults
    /\ lastSync' = NoSync
    /\ UNCHANGED <<pm, store, clock, exPm, broker, last_decision, pc, idx, market>>

NextApprove ==
    \/ RebalanceCmd
    \/ ApproveTraced

SpecApprove == BotInit /\ [][NextApprove]_vars

NextBot ==
    \/ RebalanceCmd
    \/ ApproveCmd
    \/ ConfirmAllCmd
    \/ ExecuteOrder
    \/ FinalSync
    \/ SyncCmd

SpecBot == BotInit /\ [][NextBot]_vars

(***************************************************************************)
(* Properties of the ledger.                                               *)
(***************************************************************************)
LastCallOk(op) == lastOp.op = op /\ lastOp.res = "ok"

\* C1: after any sequence of add_position / remove_position calls with any
\* arguments, every stored position has shares >= 0.
\* (Fails: add_position("AAPL", -1, 100) stores a position of -1 share.)
C1_SharesNeverNegative ==
    \A s \in Held(pm) : pm.holdings[s].shares >= 0

\* the BUY (or SELL) records of symbol in the transaction log
Fills(pf, type, symbol) ==
    SelectSeq(pf.transactions, LAMBDA t : t.type = type /\ t.symbol = symbol)

RECURSIVE SumShares(_)
SumShares(fills) ==
    IF fills = <<>> THEN 0 ELSE Head(fills).shares + SumShares(Tail(fills))

\* sum of shares_i * price_i, added up in the order of the fills
RECURSIVE SumValue(_)
SumValue(fills) ==
    IF fills = <<>> THEN R(0)
    ELSE RAdd(SumValue(SubSeq(fills, 1, Len(fills) - 1)),
              RMul(R(fills[Len(fills)].shares), fills[Len(fills)].price))

\* avg_price of symbol is the shares-weighted average of all its buy fills:
\* the price of the only fill, or the sum of shares_i * price_i divided by
\* the sum of shares_i (in float arithmetic)
IsWeightedAverageOfBuys(pf, symbol) ==
    LET buys == Fills(pf, "BUY", symbol) IN
    /\ symbol \in Held(pf)
    /\ pf.holdings[symbol].avg_price =
          IF Len(buys) = 1 THEN buys[1].price
          ELSE RDiv(SumValue(buys), R(SumShares(buys)))

\* C2 as claimed: after every successful buy the position's avg_price is the
\* shares-weighted average of the prices of all buy fills of the symbol, also
\* when sells came in between.
\* (Fails: buy 2 @ 100, sell 1, buy 1 @ 101 gives 201/2, the fills average 301/3.)
C2_AvgIsWeightedAverageOfAllBuys ==
    LastCallOk("add_position") => IsWeightedAverageOfBuys(pm, lastOp.symbol)

\* C2 as amended: after a successful buy (shares > 0) the avg_price is the
\* price when the symbol was not held, and otherwise
\* (old total_cost + shares * price) / (old_shares + shares); it is the
\* shares-weighted average of all buy fills of the symbol when no sell of the
\* symbol came before.
C2_AvgAfterBuy ==
    LastCallOk("add_position") =>
        LET s == lastOp.symbol
            b == lastOp.before
        IN  /\ s \in Held(pm)
            /\ pm.holdings[s].avg_price =
                   IF ~b.held THEN lastOp.price
                   ELSE RDiv(RAdd(b.total_cost,
                                  RMul(R(lastOp.shares), lastOp.price)),
                             R(b.shares + lastOp.shares))
            /\ Fills(pm, "SELL", s) = <<>> => IsWeightedAverageOfBuys(pm, s)

\* a second buy at another price than the first, after a sell of the symbol
C2_Witness ==
    /\ LastCallOk("add_position")
    /\ lastOp.before.held
    /\ lastOp.before.avg_price # lastOp.price
    /\ Fills(pm, "SELL", lastOp.symbol) # <<>>

\* C3: in every reachable ledger state no symbol is held with shares = 0.
\* (Fails: add_position("AAPL", 0, 100) creates a position of 0 shares.)
C3_NoZeroSharePosition ==
    \A s \in Held(pm) : pm.holdings[s].shares # 0

\* C9: saving the ledger and loading it from the store gives the same ledger:
\* cash, holdings (with the order of their keys), the ordered transaction
\* list and created_at, every number read back from the digits it was written
\* with; and after every call that saved, the store loads to the ledger in
\* memory.
C9_SaveLoadRoundTrip ==
    /\ _load_portfolio(_save_portfolio(pm), clock) = [res |-> "ok", pf |-> pm]
    /\ (LastCallOk("add_position") \/ LastCallOk("remove_position"))
          => _load_portfolio(store, clock) = [res |-> "ok", pf |-> pm]
    /\ (LastCallOk("load") /\ lastOp.file # Missing) => _save_portfolio(pm) = store

\* a ledger loaded from the store, with two transactions and a holding whose
\* average 302 / 3 has no finite decimal text: it is written with the 17
\* digits 100.66666666666667
C9_Witness ==
    /\ LastCallOk("load")
    /\ lastOp.file # Missing
    /\ Len(pm.transactions) >= 2
    /\ \E s \in Held(pm) :
        /\ pm.holdings[s].avg_price = Rat(302, 3)
        /\ store.members.holdings.members[s].members.avg_price.text
              = Decimal(1, NAdd(NMul(NOfInt(100666666), Ten(8)),
                                  NOfInt(66666667)), -14)

\* C10: loading from a corrupted or unreadable store does not fail the caller
\* and gives the empty initial state, as when the store does not exist.
\* (Fails: json.load raises JSONDecodeError, which _load_portfolio lets through.)
C10_LoadFallsBackToInitial ==
    (lastOp.op = "load" /\ lastOp.file = Corrupt) =>
        /\ lastOp.res = "ok"
        /\ pm.cash = R(InitialCash)
        /\ pm.holdings = EmptyDict
        /\ pm.transactions = <<>>

(***************************************************************************)
(* Properties of the bot's execution cycle.                                *)
(***************************************************************************)
\* the entries of the log written by confirm_all number c
Cycle(c) == {i \in DOMAIN log : log[i].confirm = c}
Cycles == 1..MaxConfirms

RECURSIVE SumOrderValues(_)
\* the sum of the order_value of the log entries of the index set I
SumOrderValues(I) ==
    IF I = {} THEN R(0)
    ELSE LET i == CHOOSE j \in I : TRUE IN
         RAdd(log[i].order_value, SumOrderValues(I \ {i}))

\* C4: after a buy that passed validation, went to the broker and was
\* filled, at whatever executed price, the cash of the ledger is not
\* negative: in the executor's ledger, in the bot's ledger and in the store.
C4_ValidatedBuyCashNotNegative ==
    (\E i \in DOMAIN log :
        log[i].side = "BUY" /\ log[i].valid /\ log[i].submitted /\ log[i].filled)
    => /\ RLe(R(0), exPm.cash)
       /\ RLe(R(0), pm.cash)
       /\ RLe(R(0), _load_portfolio(store, clock).pf.cash)

\* a validated buy was filled at an executed price above the price of its
\* validation, for more than the cash the validation saw
C4_Witness ==
    \E i \in DOMAIN log :
        /\ log[i].side = "BUY" /\ log[i].valid /\ log[i].submitted
        /\ log[i].filled
        /\ RLt(log[i].cash_at_validation,
               RMul(R(log[i].quantity), log[i].executed_price))

\* C5: in one execution cycle the order_values of the buys sent to the
\* broker sum to no more than the cash their validation saw.
C5_BatchBuysWithinCash ==
    \A c \in Cycles :
        LET sent == {i \in Cycle(c) : log[i].side = "BUY" /\ log[i].submitted} IN
        \A i \in sent : RLe(SumOrderValues(sent), log[i].cash_at_validation)

\* the share count per symbol a parsed broker snapshot reports
Reported(portfolio) ==
    [s \in DOMAIN portfolio.holdings |-> portfolio.holdings[s].shares]

\* C6: after a sync the ledger's holdings are the positions the broker
\* reported: the same symbols with the broker's share counts, nothing else.
C6_SyncFullReplace ==
    lastSync # NoSync =>
        /\ lastSync.res = "ok"
        /\ [s \in Held(pm) |-> pm.holdings[s].shares] = Reported(lastSync.portfolio)

\* C7: a batch runs to its report whatever fails on the way: every sell and
\* every buy is handed to the executor once, and the report counts each
\* order once, the orders the broker filled as successes and the others as
\* failures.
C7_BatchPartialFailure ==
    /\ results.ended # "exception"
    /\ pc = "sync" =>
          LET mine == Cycle(confirms)
              n == Len(pending_orders.sells) + Len(pending_orders.buys)
          IN  /\ Cardinality(mine) = n
              /\ Len(results.sells) + Len(results.buys) + Len(results.errors) = n
              /\ Len(results.sells) + Len(results.buys)
                    = Cardinality({i \in mine : log[i].filled})

\* C8: no buy is sent to the broker before every sell of the same batch has
\* been handed to the executor.
C8_SellsBeforeBuys ==
    \A i \in DOMAIN log :
        (log[i].side = "BUY" /\ log[i].submitted) =>
            \A j \in 1..Len(pending_orders.sells) :
                \E k \in 1..(i - 1) :
                    /\ log[k].confirm = log[i].confirm
                    /\ log[k].side = "SELL"
                    /\ log[k].item = j

\* a batch with a sell in it has sent a buy to the broker
C8_Witness ==
    /\ pending_orders # PendingNone
    /\ \E i \in DOMAIN log :
        /\ log[i].side = "BUY"
        /\ log[i].submitted
        /\ Len(pending_orders.sells) >= 1

(***************************************************************************)
(* Properties of sells, validation, quantity resolution and the gateway.   *)
(***************************************************************************)
\* the step is a remove_position call
IsRemoveStep == lastOp'.op = "remove_position" /\ clock' = clock + 1

\* C11: a remove_position of a symbol that is not held, or of more shares
\* than are held, fails, and leaves cash, holdings, the transaction log and
\* the store as they were.
C11_OversellRefusedLedgerUnchanged ==
    [][IsRemoveStep =>
        LET s == lastOp'.symbol IN
        /\ s \notin Held(pm) => lastOp'.res = "not_held"
        /\ (s \in Held(pm) /\ lastOp'.shares > pm.holdings[s].shares)
              => lastOp'.res = "insufficient_holdings"
        /\ lastOp'.res \in {"not_held", "insufficient_holdings"}
              => pm' = pm /\ store' = store]_vars

\* a sell of more shares than the ledger holds of a held symbol was refused
C11_Witness ==
    /\ lastOp.op = "remove_position"
    /\ lastOp.res = "insufficient_holdings"
    /\ lastOp.before.held
    /\ lastOp.shares > lastOp.before.shares
    /\ pm.transactions # <<>>

\* C12: a sell order for more shares than the executor's ledger holds of the
\* symbol (or for a symbol it does not hold) is validated to valid = FALSE
\* with a holdings issue, and is not sent to the broker.
C12_OversellInvalidNotSubmitted ==
    \A i \in DOMAIN log :
        (log[i].side = "SELL" /\ log[i].quantity > log[i].held_at_validation) =>
            /\ log[i].validated = "ok"
            /\ ~log[i].valid
            /\ log[i].issues \cap {"not_held", "insufficient_holdings"} # {}
            /\ ~log[i].submitted

\* C13: whenever validate_order returns, valid is FALSE exactly when the
\* list of issues is not empty; warnings do not make an order invalid, and a
\* buy with warnings but no issue is handed to the gateway (place_order).
C13_ValidIffNoHardIssue ==
    \A i \in DOMAIN log :
        log[i].validated = "ok" =>
            /\ log[i].valid <=> log[i].issues = {}
            /\ (log[i].side = "BUY" /\ log[i].issues = {}) => log[i].placed

\* a buy over the 30% weight with no issue was valid and sent, and a buy
\* with an issue was refused
C13_Witness ==
    /\ \E i \in DOMAIN log :
        /\ log[i].side = "BUY"
        /\ "max_position_pct" \in log[i].warnings
        /\ log[i].issues = {}
        /\ log[i].valid
        /\ log[i].placed
        /\ log[i].submitted
    /\ \E i \in DOMAIN log :
        /\ log[i].validated = "ok"
        /\ log[i].issues # {}
        /\ ~log[i].valid

\* the intents of buys that have a price and whose target covers one share
Resolvable(buys, lookup) ==
    SelectSeq(buys, LAMBDA b :
        /\ lookup[b.symbol] # None
        /\ RLt(R(0), lookup[b.symbol])
        /\ RLe(lookup[b.symbol], b.target_amount))

\* C14: for every buy intent with a positive price the resolved quantity q
\* is the largest integer with q * price <= target_amount, and the resolved
\* total_cost is q * price, no more than target_amount (products and
\* comparisons as Python evaluates them on floats).
\* (Fails: 7.8 at the price 1.56 resolves to int(7.8 / 1.56) = int(5.0) = 5,
\* and 5 * 1.56 = 7.800000000000001 is more than 7.8.)
C14_QuantityIsFloor ==
    lastOp.op = "approve" =>
        LET kept == Resolvable(lastOp.buys, lastOp.lookup) IN
        /\ Len(lastOp.result) = Len(kept)
        /\ \A i \in DOMAIN kept :
            LET o == lastOp.result[i]
                price == lastOp.lookup[kept[i].symbol]
            IN  /\ o.symbol = kept[i].symbol
                /\ o.price = price
                /\ o.quantity >= 1
                /\ RLe(RMul(R(o.quantity), price), kept[i].target_amount)
                /\ RLt(kept[i].target_amount, RMul(R(o.quantity + 1), price))
                /\ o.total_cost = RMul(R(o.quantity), price)
                /\ RLe(o.total_cost, kept[i].target_amount)

\* a single buy intent of 1000 at the price 333.34
IsExample1000At33334 ==
    /\ lastOp.op = "approve"
    /\ lastOp.buys = <<[symbol |-> "AAPL", target_amount |-> R(1000)]>>
    /\ lastOp.lookup["AAPL"] = Rat(33334, 100)

\* C15 as claimed: a buy intent of 1000 at the price 333.34 resolves to the
\* quantity 3 and the total_cost 1000.02.
C15_Example_Quantity3 ==
    IsExample1000At33334 =>
        /\ Len(lastOp.result) = 1
        /\ lastOp.result[1].quantity = 3
        /\ lastOp.result[1].total_cost = Rat(100002, 100)

\* C15 as amended: a buy intent of 1000 at the price 333.34 resolves to the
\* quantity 2 and the total_cost 666.68.
C15_Example_Quantity2 ==
    IsExample1000At33334 =>
        /\ Len(lastOp.result) = 1
        /\ lastOp.result[1].quantity = 2
        /\ lastOp.result[1].total_cost = Rat(66668, 100)

\* the example was resolved
C15_Witness ==
    /\ IsExample1000At33334
    /\ lastOp.result # <<>>

\* C16: every buy intent is among the resolved orders or is reported as
\* skipped; none is left out without a report.
C16_EveryIntentResolvedOrReported ==
    lastOp.op = "approve" =>
        Len(lastOp.buys) - Len(lastOp.result)
            <= (IF lastOp.message.raised THEN 0 ELSE Len(lastOp.message.skipped))

(***************************************************************************)
(* Properties of the broker snapshot and of the gateway.                   *)
(***************************************************************************)
\* the segments, in query order, that answered and hold shares of s
SegmentsOf(account, failing, s) ==
    SelectSeq(exchanges, LAMBDA e :
        /\ e \notin failing
        /\ account.pos[e][s].listed
        /\ account.pos[e][s].shares > 0)

RECURSIVE SegShares(_, _, _)
SegShares(account, s, segs) ==
    IF segs = <<>> THEN 0
    ELSE account.pos[Head(segs)][s].shares + SegShares(account, s, Tail(segs))

\* the value the broker reports for s in segment e
SegValue(account, s, e) == RMul(R(account.pos[e][s].shares), MarketPrice)

RECURSIVE SegValues(_, _, _)
SegValues(account, s, segs) ==
    IF segs = <<>> THEN R(0)
    ELSE RAdd(SegValue(account, s, Head(segs)), SegValues(account, s, Tail(segs)))

\* shares summed and average cost of the last segment, for every symbol of
\* the last parsed snapshot; value(s, segs) is what the value should be
Aggregated(value(_, _)) ==
    lastSync # NoSync =>
        \A s \in Symbols :
            LET segs == SegmentsOf(lastSync.account, lastSync.failing, s)
                h == lastSync.portfolio.holdings
            IN  IF segs = <<>> THEN s \notin DOMAIN h
                ELSE /\ s \in DOMAIN h
                     /\ h[s].shares = SegShares(lastSync.account, s, segs)
                     /\ h[s].avg_price =
                            lastSync.account.pos[segs[Len(segs)]][s].avg_price
                     /\ h[s].current_value = value(s, segs)

\* C17 as claimed: a symbol reported by several segments is aggregated to
\* the sum of the share counts, with the average cost and the value of the
\* segment observed last.
C17_SumSharesLastCostLastValue ==
    Aggregated(LAMBDA s, segs : SegValue(lastSync.account, s, segs[Len(segs)]))

\* C17 as amended: the share counts and the values of the segments are
\* summed; the average cost is that of the segment observed last.
C17_SumSharesLastCostSumValue ==
    Aggregated(LAMBDA s, segs : SegValues(lastSync.account, s, segs))

\* a snapshot parsed from two segments that hold the same symbol at
\* different average costs
C17_Witness ==
    /\ lastSync # NoSync
    /\ \E s \in Symbols :
        LET segs == SegmentsOf(lastSync.account, lastSync.failing, s) IN
        /\ Len(segs) = 2
        /\ lastSync.account.pos[segs[1]][s].avg_price
              # lastSync.account.pos[segs[2]][s].avg_price
        /\ s \in DOMAIN lastSync.portfolio.holdings

\* a dict with success True, an order id and an executed price, or with
\* success False and an error text
Structured(result) ==
    /\ "success" \in DOMAIN result
    /\ IF result.success
       THEN {"order_no", "executed_price"} \subseteq DOMAIN result
       ELSE "error" \in DOMAIN result

\* the order types a caller may pass
OrderTypes == {"BUY", "SELL", "HOLD"}

\* C18: place_order returns a structured result for every input and every
\* outcome at the broker or on the way to it; no exception leaves it.
C18_PlaceOrderNeverRaises ==
    \A symbol \in Symbols, order_type \in OrderTypes, resp \in BrokerResponses :
        \A quantity \in {0, 1} \cup {log[i].quantity : i \in DOMAIN log} :
            Structured(place_order(symbol, quantity, order_type, resp))

\* the gateway was called in a run: one order came back filled, one came
\* back as a failure of the broker or the transport, and one as a failure
\* of the token, before any request was sent
C18_Witness ==
    /\ \E i \in DOMAIN log : log[i].submitted /\ log[i].filled
    /\ \E i \in DOMAIN log : log[i].submitted /\ ~log[i].filled
    /\ \E i \in DOMAIN log : log[i].placed /\ ~log[i].submitted

\* C19: each pending order of one proposal is sent to the broker at most
\* once, whatever sequence of confirm_all invocations follows the approve.
C19_NoOrderSubmittedTwice ==
    \A i, j \in DOMAIN log :
        (/\ log[i].submitted /\ log[j].submitted
         /\ log[i].side = log[j].side
         /\ log[i].item = log[j].item) => i = j

\* the ledger and the store are the complete state the sync recorded in
\* lastSync' reported: its cash and exactly its positions
SyncReplaced ==
    /\ pm'.cash = lastSync'.portfolio.cash
    /\ Held(pm') = DOMAIN lastSync'.portfolio.holdings
    /\ \A s \in Held(pm') :
        /\ pm'.holdings[s].shares = lastSync'.portfolio.holdings[s].shares
        /\ pm'.holdings[s].avg_price = lastSync'.portfolio.holdings[s].avg_price
    /\ _load_portfolio(store', clock').pf = pm'

\* C20: every step in which a sync runs (the steps that leave a sync
\* recorded in lastSync: sync_cmd, rebalance_cmd, the end of confirm_all_cmd),
\* whether the sync returns or fails part-way, leaves the ledger in memory
\* and in the store either as it was before the step or as the complete
\* state the broker reported; nothing in between.
C20_SyncAtomic ==
    [][lastSync' # NoSync =>
          \/ pm' = pm /\ store' = store
          \/ SyncReplaced]_vars

\* a sync failed where the broker reported another cash and other positions
\* than the ledger has: ledger and store are as before the sync
C20_Witness ==
    /\ lastSync # NoSync
    /\ lastSync.res = "AttributeError"
    /\ lastSync.portfolio.cash # pm.cash
    /\ DOMAIN lastSync.portfolio.holdings # Held(pm)
    /\ _load_portfolio(store, clock).pf = pm

(***************************************************************************)
(* Properties of the batch, the order life cycle and the one ledger.       *)
(***************************************************************************)
RECURSIVE TotalShares(_, _, _)
\* the shares of s the account holds over the segments of the set E
TotalShares(account, s, E) ==
    IF E = {} THEN 0
    ELSE LET e == CHOOSE x \in E : TRUE IN
         account.pos[e][s].shares + TotalShares(account, s, E \ {e})

\* the broker's positions: the symbols it holds shares of, with the count
BrokerShares(account) ==
    [s \in {x \in Symbols : TotalShares(account, x, Exchanges) > 0} |->
        TotalShares(account, s, Exchanges)]

\* a confirm_all has come to its end
BatchOver == pc = "idle" /\ results.ended \notin {"none", "running"}

\* C21: when a batch has come to its end, the sync has run, and the
\* ledger's cash and holdings are those of the broker after the trades.
C21_BatchEndsInSync ==
    BatchOver =>
        /\ results.ended = "completed"
        /\ pm.cash = broker.cash
        /\ [s \in Held(pm) |-> pm.holdings[s].shares] = BrokerShares(broker)
\* the state a logged order ended in
OrderState(e) ==
    IF e.filled THEN "FILLED"
    ELSE IF e.placed THEN "REJECTED_OR_ERROR"
    ELSE IF e.validated = "ok" /\ e.valid THEN "VALIDATED"
    ELSE "PENDING"

TerminalStates == {"FILLED", "REJECTED_OR_ERROR"}

\* C22: an order is sent to the broker only after a validation that returned
\* valid, an order whose validation failed is never sent, and an order that
\* reached FILLED, REJECTED or ERROR is not taken up again.
C22_OrderLifeCycle ==
    /\ \A i \in DOMAIN log :
          /\ log[i].submitted => (log[i].validated = "ok" /\ log[i].valid)
          /\ ~log[i].valid => OrderState(log[i]) = "PENDING"
    /\ \A i, j \in DOMAIN log :
          (/\ i < j
           /\ log[i].side = log[j].side /\ log[i].item = log[j].item)
              => OrderState(log[i]) \notin TerminalStates
\* the account as the segments outside failing show it: nothing on a failing
\* segment, and no cash when the segment that reports cash is failing
RemainingAccount(account, failing) ==
    [cash |-> IF "NASD" \in failing THEN R(0) ELSE account.cash,
     pos |-> [e \in Exchanges |->
                IF e \in failing THEN [s \in Symbols |-> Unlisted]
                ELSE account.pos[e]]]

\* C23: when the balance query of a segment failed during a sync, the sync
\* does not go on with the snapshot drawn from the remaining segments as if
\* nothing had happened.
C23_SegmentFailureSurfaced ==
    (lastSync # NoSync /\ lastSync.failing # {}) =>
        lastSync.portfolio #
            parse_portfolio(RemainingAccount(lastSync.account, lastSync.failing),
                            {})
\* C24: when the executor has validated a buy, the valuation the validation
\* worked with lists no holding whose price was unavailable: such a holding
\* is skipped, not carried at the price 0.
C24_UnavailablePriceSkipped ==
    (\E i \in DOMAIN log : log[i].side = "BUY") =>
        \A s \in Held(exPm) :
            RIsZero(market[s]) =>
                s \notin DOMAIN get_current_value(exPm, market).holdings
\* C25: after a sync, the cash the sync read and the cash of the ledger are
\* the broker's cash, whichever segment queries failed.
C25_CashIsBrokerCash ==
    lastSync # NoSync =>
        /\ lastSync.portfolio.cash = lastSync.account.cash
        /\ pm.cash = lastSync.account.cash
\* C26: a remove_position that succeeds and leaves the position in the
\* ledger changes, of that position, its shares and its cost total only (the
\* average price stays), leaves every other position as it was, and changes
\* nothing else of the ledger but the cash and the transaction log.
C26_PartialSellFrame ==
    [][(/\ IsRemoveStep
        /\ lastOp'.res = "ok"
        /\ lastOp'.symbol \in Held(pm')) =>
        LET s == lastOp'.symbol IN
        /\ Held(pm') = Held(pm)
        /\ pm'.holdings[s].avg_price = pm.holdings[s].avg_price
        /\ [pm'.holdings[s] EXCEPT !.shares = pm.holdings[s].shares,
                                   !.total_cost = pm.holdings[s].total_cost]
              = pm.holdings[s]
        /\ \A o \in Held(pm) \ {s} : pm'.holdings[o] = pm.holdings[o]
        /\ [pm' EXCEPT !.holdings = pm.holdings, !.cash = pm.cash,
                       !.transactions = pm.transactions] = pm
        /\ store' = _save_portfolio(pm')]_vars

\* a sell of a part of a position went through while another position was
\* held
C26_Witness ==
    /\ lastOp.op = "remove_position"
    /\ lastOp.res = "ok"
    /\ lastOp.shares > 0
    /\ lastOp.symbol \in Held(pm)
    /\ pm.holdings[lastOp.symbol].shares = lastOp.before.shares - lastOp.shares
    /\ Held(pm) \ {lastOp.symbol} # {}
\* C27: an order the broker filled is applied to the executor's ledger
\* before the next order is taken up, and is reported as a success.
C27_FilledOrderUpdatesLedger ==
    \A i \in DOMAIN log :
        log[i].filled => (log[i].applied /\ log[i].success)
\* the ledger pf holds what a sync that read the account would have written
HoldsSnapshotOf(pf, account) ==
    \E failing \in FailingSets :
        LET p == parse_portfolio(account, failing) IN
        /\ pf.cash = p.cash
        /\ Held(pf) = DOMAIN p.holdings
        /\ \A s \in Held(pf) : pf.holdings[s].shares = p.holdings[s].shares

\* the second confirm_all of a proposal is about to validate its first
\* order; the first confirm_all went through all its orders and ran its sync
ValidatesAfterSync ==
    /\ pc = "orders" /\ idx = 1 /\ confirms = 2
    /\ \A i \in DOMAIN pending_orders.sells :
          pending_orders.sells[i].quantity # None

\* C28: there is one ledger: the ledger the executor validates an order
\* against after a sync is the ledger that sync wrote, with the cash and the
\* positions the sync read from the broker.
C28_OneLedger ==
    ValidatesAfterSync => (exPm = pm /\ HoldsSnapshotOf(exPm, broker))
\* C29: no order with a quantity of 0 or less is sent to the broker; a sell
\* intent for a fraction of a share, which int() truncates to 0, is not sent.
C29_NoNonPositiveQuantitySubmitted ==
    \A i \in DOMAIN log : log[i].submitted => log[i].quantity > 0

\* a sell of half a share was handed to the executor as a sell of 0 shares
\* and was not sent, and a buy of the same batch was sent
C29_Witness ==
    \E i, j \in DOMAIN log :
        /\ log[i].side = "SELL" /\ log[i].quantity = 0 /\ ~log[i].submitted
        /\ pending_orders # PendingNone
        /\ pending_orders.sells[log[i].item].quantity = Rat(1, 2)
        /\ log[j].side = "BUY" /\ log[j].submitted
        /\ log[j].confirm = log[i].confirm
RECURSIVE CashFlow(_)
\* the proceeds of the logged SELLs less the cost of the logged BUYs
CashFlow(transactions) ==
    IF transactions = <<>> THEN R(0)
    ELSE LET t == Head(transactions) IN
         IF t.type = "BUY" THEN RSub(CashFlow(Tail(transactions)), t.cost)
         ELSE RAdd(CashFlow(Tail(transactions)), t.proceeds)

\* C30: in every state of the ledger each held position has
\* total_cost = shares * avg_price, and the cash is the initial cash less the
\* cost of the logged buys plus the proceeds of the logged sells.
C30_CostAndCashAccounting ==
    /\ \A s \in Held(pm) :
          pm.holdings[s].total_cost
              = RMul(R(pm.holdings[s].shares), pm.holdings[s].avg_price)
    /\ pm.cash = RAdd(R(InitialCash), CashFlow(pm.transactions))
====
